---- MODULE Spec2Model ----
(***************************************************************************)
(* A model of app.py of gradio-chatbot-openai: the per-session settings    *)
(* (UserState), the context builder and the streaming loop of              *)
(* chat_response, and the submit_message generator that stores the         *)
(* streamed text in the Chatbot transcript.                                *)
(*                                                                         *)
(* Text is a sequence of tokens.  A token stands for a piece of the real   *)
(* string that the code never looks inside:                                *)
(*   ">> ## "     the common prefix of both display markers                *)
(*   "THINK"      the characters of the begin marker after that prefix     *)
(*   "REPLY"      the characters of the answer marker after that prefix    *)
(*   "NL"         the two newlines "\n\n" (whitespace)                     *)
(*   " "          a blank (whitespace)                                     *)
(*   "<details>", "</details>"   the legacy tags                           *)
(*   "LOADING"    the loading placeholder of submit_message                *)
(*   "ERR_AUTH", "ERR_RATE", "ERR_API", "ERR_OTHER"  the four error texts  *)
(*   "a", "b"     letters that occur only in reasoning fragments           *)
(*   "x", "y"     letters of answer fragments                              *)
(*   "u"          a letter of user messages, "p", "d" of system prompts    *)
(*   "u1", "u2", "p1", "p2"   what the users of two sessions type          *)
(* The answer marker is searched as the two tokens ">> ## ", "REPLY", so   *)
(* it can also be formed by text that arrives in separate fragments.       *)
(***************************************************************************)
EXTENDS Integers, Sequences, FiniteSets, TLC

VARIABLES
    config,            \* CONFIG after load_config: default_model_id, context_size, system_prompt
    state,             \* the session's UserState dict
    chatbot,           \* value of the Chatbot component: the stored transcript
    client_cache,      \* _client_cache: the model ids that have a client
    pc,                \* position of the submit_message / chat_response generators
    message,           \* submit_message's message argument
    history,           \* submit_message's local history list
    api_params,        \* chat_response's request: model, messages, thinking flag
    response_text,     \* submit_message's response_text accumulator
    thinking_started,  \* chat_response local
    thinking_ended,    \* chat_response local
    delta,             \* the chunk whose content part is still to be handled
    emitted,           \* the fragments chat_response yielded in this turn, tagged
    arrived,           \* the non-empty fragments received in this turn, tagged
    fault,             \* the fault caught in this turn, or "none"
    api_calls,         \* calls of client.chat.completions.create in this turn
    turns,             \* number of submits so far
    chunks,            \* number of chunks received in this turn
    parked,            \* the other session: its state, Chatbot and generator, suspended
    active             \* which of the two sessions the variables above belong to

vars == << config, state, chatbot, client_cache, pc, message, history, api_params,
           response_text, thinking_started, thinking_ended, delta, emitted,
           arrived, fault, api_calls, turns, chunks, parked, active >>

\* what belongs to the session whose handler is not running
other_session == << parked, active >>

(***************************************************************************)
(* Bounds of the model.                                                    *)
(***************************************************************************)
MaxTurns == 2
MaxChunks == 2
MaxAsmChunks == 4
MaxHist == 8
MaxCtx == 3
MaxEntryLen == 5
MaxTwoChunks == 1

(***************************************************************************)
(* Python string and list operations used by the code.                     *)
(***************************************************************************)
Whitespace == {" ", "NL"}

MatchesAt(s, sub, i) ==
    /\ i >= 1
    /\ i + Len(sub) - 1 <= Len(s)
    /\ \A k \in 1..Len(sub) : s[i + k - 1] = sub[k]

\* sub in s
Contains(s, sub) == \E i \in 1..Len(s) : MatchesAt(s, sub, i)

\* s[i:] with a 1-based first position
Tail_from(s, i) == SubSeq(s, i, Len(s))

\* s.find(sub, start): the first position >= start where sub occurs, 0 if none
RECURSIVE Find(_, _, _)
Find(s, sub, start) ==
    IF start + Len(sub) - 1 > Len(s) THEN 0
    ELSE IF MatchesAt(s, sub, start) THEN start
    ELSE Find(s, sub, start + 1)

\* s.split(sep)[-1]: str.split scans left to right over non-overlapping
\* occurrences of sep; the last piece is what follows the last one it found
RECURSIVE SplitLastFrom(_, _, _)
SplitLastFrom(s, sep, start) ==
    LET i == Find(s, sep, start)
    IN  IF i = 0 THEN Tail_from(s, start)
        ELSE SplitLastFrom(s, sep, i + Len(sep))

SplitLast(s, sep) == SplitLastFrom(s, sep, 1)

\* s.lstrip(), s.rstrip(), s.strip()
RECURSIVE LStrip(_)
LStrip(s) ==
    IF s # << >> /\ Head(s) \in Whitespace THEN LStrip(Tail(s)) ELSE s

RECURSIVE RStrip(_)
RStrip(s) ==
    IF s # << >> /\ s[Len(s)] \in Whitespace
    THEN RStrip(SubSeq(s, 1, Len(s) - 1)) ELSE s

Strip(s) == RStrip(LStrip(s))

\* lst[start:] with Python's index rules (a negative start counts from the end)
SliceFrom(lst, start) ==
    LET st == IF start < 0
              THEN (IF start + Len(lst) < 0 THEN 0 ELSE start + Len(lst))
              ELSE (IF start > Len(lst) THEN Len(lst) ELSE start)
    IN  SubSeq(lst, st + 1, Len(lst))

\* lst[:stop] with Python's index rules
SliceTo(lst, stop) ==
    LET en == IF stop < 0
              THEN (IF stop + Len(lst) < 0 THEN 0 ELSE stop + Len(lst))
              ELSE (IF stop > Len(lst) THEN Len(lst) ELSE stop)
    IN  SubSeq(lst, 1, en)

(***************************************************************************)
(* The fixed texts of the code.                                            *)
(***************************************************************************)
BEGIN_MARKER      == << ">> ## ", "THINK", "NL" >>
TRANSITION_MARKER == << "NL", ">> ## ", "REPLY", "NL" >>
ANSWER_TAG        == << ">> ## ", "REPLY" >>
DETAILS_OPEN      == << "<details>" >>
DETAILS_CLOSE     == << "</details>" >>
LOADING_TEXT      == << "LOADING" >>
DEFAULT_PROMPT    == << "d" >>
DEFAULT_CONTEXT_SIZE == 5

FaultKinds == {"auth", "rate", "api", "other"}

ErrorText(f) ==
    CASE f = "auth"  -> << "ERR_AUTH" >>
      [] f = "rate"  -> << "ERR_RATE" >>
      [] f = "api"   -> << "ERR_API" >>
      [] OTHER       -> << "ERR_OTHER" >>

(***************************************************************************)
(* Configuration: load_config, validate_config and the model registry.     *)
(***************************************************************************)
\* CONFIG['models']: m1 declares supports_thinking: true, m2 leaves the key out
MODELS == << [id |-> "m1", has_supports_thinking |-> TRUE,  supports_thinking |-> TRUE],
             [id |-> "m2", has_supports_thinking |-> FALSE, supports_thinking |-> FALSE] >>

\* MODEL_CHOICES
MODEL_CHOICES == { MODELS[i].id : i \in 1..Len(MODELS) }

\* get_model_config: MODEL_CONFIG_MAP.get(model_id, CONFIG['models'][0])
get_model_config(model_id) ==
    IF \E i \in 1..Len(MODELS) : MODELS[i].id = model_id
    THEN MODELS[CHOOSE i \in 1..Len(MODELS) : MODELS[i].id = model_id]
    ELSE MODELS[1]

\* model_config.get('supports_thinking', False)
supports_thinking(model_config) ==
    IF model_config.has_supports_thinking THEN model_config.supports_thinking ELSE FALSE

\* load_config: a missing or falsy context_size / system_prompt gets the default;
\* validate_config: default_model_id is the first model unless the file names one
load_config(raw_default_model, raw_context_size, raw_system_prompt) ==
    [ default_model_id |-> IF raw_default_model = "" THEN MODELS[1].id ELSE raw_default_model,
      context_size     |-> IF raw_context_size = 0 THEN DEFAULT_CONTEXT_SIZE ELSE raw_context_size,
      system_prompt    |-> IF raw_system_prompt = << >> THEN DEFAULT_PROMPT ELSE raw_system_prompt ]

(***************************************************************************)
(* Session state functions.                                                *)
(***************************************************************************)
create_user_state(enable_thinking) ==
    [ model_id        |-> config.default_model_id,
      context_size    |-> config.context_size,
      system_prompt   |-> config.system_prompt,
      enable_thinking |-> enable_thinking ]

\* mutant: the toggle is set to the model's capability instead of only being cleared
update_model_sets_capability(model_id, st) ==
    [st EXCEPT !.model_id = model_id,
               !.enable_thinking = supports_thinking(get_model_config(model_id))]

update_model(model_id, st) ==
    LET s1 == [st EXCEPT !.model_id = model_id]
    IN  IF ~supports_thinking(get_model_config(model_id))
        THEN [s1 EXCEPT !.enable_thinking = FALSE]
        ELSE s1

\* the state that on_model_change returns (its other outputs are display only)
on_model_change(model_id, st) ==
    LET s1 == update_model(model_id, st)
    IN  IF ~supports_thinking(get_model_config(model_id))
        THEN [s1 EXCEPT !.enable_thinking = FALSE]
        ELSE s1

\* size is an integer here; int(size) of NaN raises ValueError, which is passed over
update_context_size(size, st) ==
    IF size.nan THEN st
    ELSE [st EXCEPT !.context_size = IF size.val < 1 THEN 1 ELSE size.val]

update_system_prompt(prompt, st) ==
    LET p == IF prompt = << >> \/ Strip(prompt) = << >> THEN config.system_prompt ELSE prompt
    IN  [st EXCEPT !.system_prompt = Strip(p)]

toggle_thinking_enable(show, st) == [st EXCEPT !.enable_thinking = show]

(***************************************************************************)
(* chat_response: the context builder (lines 163-202).  The content of a   *)
(* history entry is its text, i.e. after the list-of-parts normalisation.  *)
(***************************************************************************)
\* not content or not content.strip()
IsBlank(content) == content = << >> \/ Strip(content) = << >>

\* s.split(sep)[1]: the piece after the first occurrence of sep (sep occurs in s)
SplitSecond(s, sep) ==
    LET i == Find(s, sep, 1)
        rest == Tail_from(s, i + Len(sep))
        j == Find(rest, sep, 1)
    IN  IF j = 0 THEN rest ELSE SubSeq(rest, 1, j - 1)

\* mutant: the piece after the first marker is taken, not the one after the last
extract_answer_first_split(content) ==
    IF Contains(content, ANSWER_TAG)
    THEN Strip(SplitSecond(content, ANSWER_TAG))
    ELSE IF Contains(content, DETAILS_OPEN)
         THEN Strip(SplitLast(content, DETAILS_CLOSE))
         ELSE content

\* mutant: the text after the marker is not stripped
extract_answer_no_strip(content) ==
    IF Contains(content, ANSWER_TAG)
    THEN SplitLast(content, ANSWER_TAG)
    ELSE IF Contains(content, DETAILS_OPEN)
         THEN SplitLast(content, DETAILS_CLOSE)
         ELSE content

\* mutant: the legacy branch splits at the opening tag it tested for
extract_answer_split_at_open(content) ==
    IF Contains(content, ANSWER_TAG)
    THEN Strip(SplitLast(content, ANSWER_TAG))
    ELSE IF Contains(content, DETAILS_OPEN)
         THEN Strip(SplitLast(content, DETAILS_OPEN))
         ELSE content

\* lines 193-197: the text kept of an assistant entry
extract_answer(content) ==
    IF Contains(content, ANSWER_TAG)
    THEN Strip(SplitLast(content, ANSWER_TAG))
    ELSE IF Contains(content, DETAILS_OPEN)
         THEN Strip(SplitLast(content, DETAILS_CLOSE))
         ELSE content

\* mutant: the window counts entries where it should count rounds of two
recent_history_entries(hist, st) ==
    IF hist # << >> THEN SliceFrom(hist, -st.context_size) ELSE << >>

\* history[-state["context_size"]*2:] if history else []
recent_history(hist, st) ==
    IF hist # << >> THEN SliceFrom(hist, (-st.context_size) * 2) ELSE << >>

\* the loop of lines 175-199
RECURSIVE history_messages(_)
history_messages(recent) ==
    IF recent = << >> THEN << >>
    ELSE LET msg == Head(recent)
             rest == history_messages(Tail(recent))
         IN  IF IsBlank(msg.content) THEN rest
             ELSE IF msg.role = "assistant"
                  THEN << [role |-> "assistant", content |-> extract_answer(msg.content)] >> \o rest
                  ELSE << [role |-> msg.role, content |-> msg.content] >> \o rest

build_messages(msg, hist, st) ==
    << [role |-> "system", content |-> st.system_prompt] >>
    \o history_messages(recent_history(hist, st))
    \o << [role |-> "user", content |-> msg] >>

\* lines 209-222
build_api_params(msg, hist, st) ==
    [ model    |-> st.model_id,
      messages |-> build_messages(msg, hist, st),
      thinking |-> st.enable_thinking /\ supports_thinking(get_model_config(st.model_id)) ]

(***************************************************************************)
(* Inputs.                                                                 *)
(***************************************************************************)
\* a chunk's delta: its reasoning_content, reasoning and content fields
\* (<< >> stands for a missing, None or empty field: all are falsy)
Delta(rc, r, c) == [reasoning_content |-> rc, reasoning |-> r, content |-> c]

NoDelta == Delta(<< >>, << >>, << >>)

\* the deltas of the session specification
StreamEvents ==
    { Delta(<< "a" >>, << >>, << >>),
      Delta(<< >>, << >>, << "x" >>),
      Delta(<< "a" >>, << >>, << "x" >>) }

\* the deltas of the single-turn specification: both reasoning fields, both
\* channels in one chunk, whitespace, and answer text that spells the marker
AsmEvents ==
    { Delta(<< "a" >>, << >>, << >>),
      Delta(<< >>, << "b" >>, << >>),
      Delta(<< "a" >>, << "b" >>, << "x" >>),
      Delta(<< ">> ## ", "REPLY" >>, << >>, << >>),
      Delta(<< >>, << >>, << "x" >>),
      Delta(<< >>, << >>, << "y" >>),
      Delta(<< >>, << >>, << " " >>),
      Delta(<< >>, << >>, << ">> ## " >>),
      Delta(<< >>, << >>, << "REPLY" >>),
      NoDelta }

UserMessages == { << >>, << "u" >> }

RawContextSizes == { -1, 0, 1 }

RawPrompts == { << >>, << "p", " " >> }

SizeInputs ==
    { [nan |-> FALSE, val |-> n] : n \in {0, 2} } \cup { [nan |-> TRUE, val |-> 0] }

PromptInputs == { << " " >>, << "p" >> }

(***************************************************************************)
(* The initial state: module load (lines 100-108) and the session's        *)
(* gr.State (lines 269-272).                                               *)
(***************************************************************************)
NoParams == [model |-> "", messages |-> << >>, thinking |-> FALSE]

InitTurn ==
    /\ pc = "idle"
    /\ message = << >>
    /\ history = << >>
    /\ api_params = NoParams
    /\ response_text = << >>
    /\ thinking_started = FALSE
    /\ thinking_ended = FALSE
    /\ delta = NoDelta
    /\ emitted = << >>
    /\ arrived = << >>
    /\ fault = "none"
    /\ api_calls = 0
    /\ turns = 0
    /\ chunks = 0

\* the per-session values as one record: the gr.State value, the Chatbot value
\* and the locals of the session's submit_message / chat_response generators
Session ==
    [ state |-> state, chatbot |-> chatbot, pc |-> pc, message |-> message,
      history |-> history, api_params |-> api_params, response_text |-> response_text,
      thinking_started |-> thinking_started, thinking_ended |-> thinking_ended,
      delta |-> delta, emitted |-> emitted, arrived |-> arrived, fault |-> fault,
      api_calls |-> api_calls, turns |-> turns, chunks |-> chunks ]

\* a session as Gradio creates it: its own copy of the gr.State value of line 272,
\* an empty Chatbot, no generator running
NewSession ==
    [ state |-> create_user_state(supports_thinking(get_model_config(config.default_model_id))),
      chatbot |-> << >>, pc |-> "idle", message |-> << >>,
      history |-> << >>, api_params |-> NoParams, response_text |-> << >>,
      thinking_started |-> FALSE, thinking_ended |-> FALSE,
      delta |-> NoDelta, emitted |-> << >>, arrived |-> << >>, fault |-> "none",
      api_calls |-> 0, turns |-> 0, chunks |-> 0 ]

\* the other session has just been opened
InitOther ==
    /\ parked = NewSession
    /\ active = 1

\* any configuration file
InitConfig ==
    \E dm \in MODEL_CHOICES \cup {""}, cs \in RawContextSizes, sp \in RawPrompts :
        config = load_config(dm, cs, sp)

\* a configuration file that names the default model and leaves the rest out
InitDefaultConfig ==
    \E dm \in MODEL_CHOICES : config = load_config(dm, 0, << >>)

InitSession ==
    /\ state = create_user_state(supports_thinking(get_model_config(config.default_model_id)))
    /\ chatbot = << >>
    /\ client_cache = {}
    /\ InitTurn
    /\ InitOther

Init == InitDefaultConfig /\ InitSession

(***************************************************************************)
(* Settings handlers.  Each may run while a turn is in flight: the state   *)
(* dict is shared with the running generator.                              *)
(***************************************************************************)
turn_vars == << message, history, api_params, response_text, thinking_started,
                thinking_ended, delta, emitted, arrived, fault, api_calls,
                turns, chunks >>

OnModelChange(model_id) ==
    /\ state' = on_model_change(model_id, state)
    /\ UNCHANGED << other_session, config, chatbot, client_cache, pc, turn_vars >>

UpdateContextSize(size) ==
    /\ state' = update_context_size(size, state)
    /\ UNCHANGED << other_session, config, chatbot, client_cache, pc, turn_vars >>

UpdateSystemPrompt(prompt) ==
    /\ state' = update_system_prompt(prompt, state)
    /\ UNCHANGED << other_session, config, chatbot, client_cache, pc, turn_vars >>

ToggleThinkingEnable(show) ==
    /\ state' = toggle_thinking_enable(show, state)
    /\ UNCHANGED << other_session, config, chatbot, client_cache, pc, turn_vars >>

\* clear.click: lambda: None
Clear ==
    /\ chatbot # << >>
    /\ chatbot' = << >>
    /\ UNCHANGED << other_session, config, state, client_cache, pc, turn_vars >>

(***************************************************************************)
(* submit_message and chat_response, one action per stretch of code        *)
(* between two yields.                                                     *)
(***************************************************************************)
Frag(kind, text) == [kind |-> kind, text |-> text]

RECURSIVE Texts(_)
Texts(frags) ==
    IF frags = << >> THEN << >> ELSE Head(frags).text \o Texts(Tail(frags))

\* lines 358-360, for the fragments chat_response yields in one stretch:
\* response_text += chunk; yield history[:-1] + [assistant response_text]
stored_entry(text) == [role |-> "assistant", content |-> text]

\* mutant: the new entry replaces the last two entries of history
Yield_over_user_entry(frags) ==
    /\ emitted' = emitted \o frags
    /\ response_text' = response_text \o Texts(frags)
    /\ chatbot' = IF frags = << >> THEN chatbot
                  ELSE SliceTo(history, -2) \o << stored_entry(response_text \o Texts(frags)) >>

Yield(frags) ==
    /\ emitted' = emitted \o frags
    /\ response_text' = response_text \o Texts(frags)
    /\ chatbot' = IF frags = << >> THEN chatbot
                  ELSE SliceTo(history, -1) \o << stored_entry(response_text \o Texts(frags)) >>

\* lines 341-350
Submit(msg) ==
    /\ pc \in {"idle", "done"}
    /\ message' = msg
    /\ turns' = turns + 1
    /\ api_params' = NoParams
    /\ response_text' = << >>
    /\ thinking_started' = FALSE
    /\ thinking_ended' = FALSE
    /\ delta' = NoDelta
    /\ emitted' = << >>
    /\ arrived' = << >>
    /\ fault' = "none"
    /\ api_calls' = 0
    /\ chunks' = 0
    /\ IF msg = << >>
       THEN /\ history' = chatbot
            /\ chatbot' = chatbot
            /\ pc' = "done"
       ELSE /\ history' = Append(chatbot, [role |-> "user", content |-> msg])
            /\ chatbot' = Append(chatbot, [role |-> "user", content |-> msg])
            /\ pc' = "user_added"
    /\ UNCHANGED << other_session, config, state, client_cache >>

\* lines 353-354
AddLoading ==
    /\ pc = "user_added"
    /\ history' = Append(history, [role |-> "assistant", content |-> LOADING_TEXT])
    /\ chatbot' = Append(history, [role |-> "assistant", content |-> LOADING_TEXT])
    /\ pc' = "loading"
    /\ UNCHANGED << other_session, config, state, client_cache, message, api_params, response_text,
                    thinking_started, thinking_ended, delta, emitted, arrived,
                    fault, api_calls, turns, chunks >>

\* line 358 and lines 160-229: chat_response(message, history[:-2], state) up to
\* the stream being returned
StartChat ==
    /\ pc = "loading"
    /\ api_params' = build_api_params(message, SliceTo(history, -2), state)
    /\ client_cache' = client_cache \cup {state.model_id}
    /\ api_calls' = api_calls + 1
    /\ thinking_started' = FALSE
    /\ thinking_ended' = FALSE
    /\ pc' = "streaming"
    /\ UNCHANGED << other_session, config, state, chatbot, message, history, response_text, delta,
                    emitted, arrived, fault, turns, chunks >>

\* the same, with get_or_create_openai_client raising (no client is cached) or
\* create raising (the client is cached): lines 250-261
StartChatFault(f) ==
    /\ pc = "loading"
    /\ api_params' = build_api_params(message, SliceTo(history, -2), state)
    /\ \E called \in BOOLEAN :
          /\ ~called => state.model_id \notin client_cache
          /\ client_cache' = IF called THEN client_cache \cup {state.model_id} ELSE client_cache
          /\ api_calls' = IF called THEN api_calls + 1 ELSE api_calls
    /\ fault' = f
    /\ Yield(<< Frag("error", ErrorText(f)) >>)
    /\ pc' = "done"
    /\ UNCHANGED << other_session, config, state, message, history, thinking_started, thinking_ended,
                    delta, arrived, turns, chunks >>

\* state["enable_thinking"] and model_config.get('supports_thinking', False),
\* model_config being the one chat_response looked up when it started
thinking_on == state.enable_thinking /\ supports_thinking(get_model_config(api_params.model))

\* getattr(delta, 'reasoning_content', None) or getattr(delta, 'reasoning', None)
reasoning_of(d) == IF d.reasoning_content # << >> THEN d.reasoning_content ELSE d.reasoning

\* mutant: the fragment is yielded inside the "not thinking_started" branch
reasoning_frags_first_only(d, started, on) ==
    IF reasoning_of(d) # << >> /\ on /\ ~started
    THEN << Frag("begin", BEGIN_MARKER), Frag("reasoning", reasoning_of(d)) >>
    ELSE << >>

\* lines 235-240: what the reasoning part of a chunk yields
reasoning_frags(d, started, on) ==
    IF reasoning_of(d) # << >> /\ on
    THEN (IF ~started THEN << Frag("begin", BEGIN_MARKER) >> ELSE << >>)
         \o << Frag("reasoning", reasoning_of(d)) >>
    ELSE << >>

\* lines 243-248: what the content part of a chunk yields
content_frags(d, started, ended, on) ==
    IF d.content # << >>
    THEN (IF started /\ ~ended /\ on THEN << Frag("transition", TRANSITION_MARKER) >> ELSE << >>)
         \o << Frag("answer", d.content) >>
    ELSE << >>

\* lines 231-240: the next chunk arrives and its reasoning part is handled
RecvChunk(d) ==
    /\ pc = "streaming"
    /\ delta' = d
    /\ chunks' = chunks + 1
    /\ arrived' = IF reasoning_of(d) # << >>
                  THEN Append(arrived, [kind |-> "reasoning", text |-> reasoning_of(d), on |-> thinking_on])
                  ELSE arrived
    /\ thinking_started' = (thinking_started \/ (reasoning_of(d) # << >> /\ thinking_on))
    /\ Yield(reasoning_frags(d, thinking_started, thinking_on))
    /\ pc' = "content"
    /\ UNCHANGED << other_session, config, state, client_cache, message, history, api_params,
                    thinking_ended, fault, api_calls, turns >>

\* lines 243-248: the content part of the same chunk
ContentPart ==
    /\ pc = "content"
    /\ arrived' = IF delta.content # << >>
                  THEN Append(arrived, [kind |-> "answer", text |-> delta.content, on |-> thinking_on])
                  ELSE arrived
    /\ thinking_ended' = (thinking_ended \/ (delta.content # << >> /\ thinking_started /\ thinking_on))
    /\ Yield(content_frags(delta, thinking_started, thinking_ended, thinking_on))
    /\ delta' = NoDelta
    /\ pc' = "streaming"
    /\ UNCHANGED << other_session, config, state, client_cache, message, history, api_params,
                    thinking_started, fault, api_calls, turns, chunks >>

\* mutant: the error is yielded inside the loop, which then goes on iterating
StreamFault_continues(f) ==
    /\ pc = "streaming"
    /\ fault' = f
    /\ Yield(<< Frag("error", ErrorText(f)) >>)
    /\ pc' = "streaming"
    /\ UNCHANGED << other_session, config, state, client_cache, message, history, api_params,
                    thinking_started, thinking_ended, delta, arrived, api_calls,
                    turns, chunks >>

\* the stream raises while it is iterated: lines 250-261
StreamFault(f) ==
    /\ pc = "streaming"
    /\ fault' = f
    /\ Yield(<< Frag("error", ErrorText(f)) >>)
    /\ pc' = "done"
    /\ UNCHANGED << other_session, config, state, client_cache, message, history, api_params,
                    thinking_started, thinking_ended, delta, arrived, api_calls,
                    turns, chunks >>

\* the stream is exhausted: both generators return
StreamEnd ==
    /\ pc = "streaming"
    /\ pc' = "done"
    /\ UNCHANGED << other_session, config, state, chatbot, client_cache, message, history, api_params,
                    response_text, thinking_started, thinking_ended, delta, emitted,
                    arrived, fault, api_calls, turns, chunks >>

(***************************************************************************)
(* The session: settings handlers interleaved with turns.                  *)
(***************************************************************************)
Next ==
    \/ \E m \in MODEL_CHOICES : OnModelChange(m)
    \/ \E b \in BOOLEAN : ToggleThinkingEnable(b)
    \/ Clear
    \/ \E msg \in UserMessages : turns < MaxTurns /\ Submit(msg)
    \/ AddLoading
    \/ StartChat
    \/ \E f \in FaultKinds : StartChatFault(f)
    \/ \E d \in StreamEvents : chunks < MaxChunks /\ RecvChunk(d)
    \/ ContentPart
    \/ \E f \in FaultKinds : StreamFault(f)
    \/ StreamEnd

Spec == Init /\ [][Next]_vars

(***************************************************************************)
(* The settings handlers alone, from any configuration.                    *)
(***************************************************************************)
InitSettings == InitConfig /\ InitSession

NextSettings ==
    \/ \E m \in MODEL_CHOICES : OnModelChange(m)
    \/ \E n \in SizeInputs : UpdateContextSize(n)
    \/ \E p \in PromptInputs : UpdateSystemPrompt(p)
    \/ \E b \in BOOLEAN : ToggleThinkingEnable(b)

SpecSettings == InitSettings /\ [][NextSettings]_vars

(***************************************************************************)
(* One turn of a fresh session whose settings the handlers have left in    *)
(* any of their combinations, over the larger set of deltas.               *)
(***************************************************************************)
InitAsm ==
    /\ InitDefaultConfig
    /\ \E m \in MODEL_CHOICES, b \in BOOLEAN :
          state = toggle_thinking_enable(b,
                     on_model_change(m, create_user_state(
                        supports_thinking(get_model_config(config.default_model_id)))))
    /\ chatbot = << >>
    /\ client_cache = {}
    /\ InitTurn
    /\ InitOther

NextAsm ==
    \/ \E msg \in UserMessages : turns = 0 /\ Submit(msg)
    \/ AddLoading
    \/ StartChat
    \/ \E f \in FaultKinds : StartChatFault(f)
    \/ \E d \in AsmEvents : chunks < MaxAsmChunks /\ RecvChunk(d)
    \/ ContentPart
    \/ \E f \in FaultKinds : StreamFault(f)
    \/ StreamEnd

SpecAsm == InitAsm /\ [][NextAsm]_vars

(***************************************************************************)
(* The context builder applied to stored transcripts: a submit on a        *)
(* session whose Chatbot holds a transcript of earlier turns.              *)
(***************************************************************************)
UserPool == << << "u" >>, << " " >> >>

AsstPool == << << "x" >>, BEGIN_MARKER \o << "a" >> \o TRANSITION_MARKER \o << "y" >> >>

\* transcripts of alternating user and assistant entries, as submit_message stores them
Transcripts ==
    UNION { { [i \in 1..k |-> IF i % 2 = 1
                               THEN [role |-> "user", content |-> UserPool[f[i]]]
                               ELSE [role |-> "assistant", content |-> AsstPool[f[i]]]]
              : f \in [1..k -> 1..2] } : k \in 0..MaxHist }

EntryTokens == { ">> ## ", "REPLY", "x", " ", "<details>", "</details>" }

\* every assistant text of up to MaxEntryLen tokens
EntryTexts == UNION { [1..k -> EntryTokens] : k \in 0..MaxEntryLen }

\* one earlier turn whose assistant entry is any such text
CodecTranscripts ==
    { << [role |-> "user", content |-> << "u" >>],
         [role |-> "assistant", content |-> t] >> : t \in EntryTexts }

ContextSizes == {-1} \cup (1..MaxCtx)

InitCtx ==
    /\ InitDefaultConfig
    /\ \/ /\ \E n \in ContextSizes :
                state = [create_user_state(
                            supports_thinking(get_model_config(config.default_model_id)))
                         EXCEPT !.context_size = n]
          /\ chatbot \in Transcripts
       \/ /\ state = create_user_state(
                         supports_thinking(get_model_config(config.default_model_id)))
          /\ chatbot \in CodecTranscripts
    /\ client_cache = {}
    /\ InitTurn
    /\ InitOther

NextCtx ==
    \/ \E msg \in UserMessages : turns = 0 /\ Submit(msg)
    \/ AddLoading
    \/ StartChat
    \/ \E f \in FaultKinds : StartChatFault(f)

SpecCtx == InitCtx /\ [][NextCtx]_vars

(***************************************************************************)
(* Two sessions of the one process.  Gradio hands every handler the        *)
(* gr.State value and the Chatbot value of the session the event came      *)
(* from; CONFIG and _client_cache are module globals, the same for both.   *)
(* The handlers above act on the session in the variables; Switch makes    *)
(* the other session the one whose event is handled next.                  *)
(***************************************************************************)
\* mutant: the settings dict is one object for all sessions
Switch_shared_state ==
    /\ active' = 3 - active
    /\ parked' = Session
    /\ state' = state
    /\ chatbot' = parked.chatbot
    /\ pc' = parked.pc
    /\ message' = parked.message
    /\ history' = parked.history
    /\ api_params' = parked.api_params
    /\ response_text' = parked.response_text
    /\ thinking_started' = parked.thinking_started
    /\ thinking_ended' = parked.thinking_ended
    /\ delta' = parked.delta
    /\ emitted' = parked.emitted
    /\ arrived' = parked.arrived
    /\ fault' = parked.fault
    /\ api_calls' = parked.api_calls
    /\ turns' = parked.turns
    /\ chunks' = parked.chunks
    /\ UNCHANGED << config, client_cache >>

\* the next event handled comes from the other session
Switch ==
    /\ active' = 3 - active
    /\ parked' = Session
    /\ state' = parked.state
    /\ chatbot' = parked.chatbot
    /\ pc' = parked.pc
    /\ message' = parked.message
    /\ history' = parked.history
    /\ api_params' = parked.api_params
    /\ response_text' = parked.response_text
    /\ thinking_started' = parked.thinking_started
    /\ thinking_ended' = parked.thinking_ended
    /\ delta' = parked.delta
    /\ emitted' = parked.emitted
    /\ arrived' = parked.arrived
    /\ fault' = parked.fault
    /\ api_calls' = parked.api_calls
    /\ turns' = parked.turns
    /\ chunks' = parked.chunks
    /\ UNCHANGED << config, client_cache >>

\* what the user of session i types: texts that tell the two sessions apart
TwoMessage(i) == << IF i = 1 THEN "u1" ELSE "u2" >>

TwoPrompt(i) == << IF i = 1 THEN "p1" ELSE "p2" >>

TwoSize(i) == [nan |-> FALSE, val |-> i + 1]

\* the transcript of one earlier turn of session i
EarlierTurn(i) ==
    << [role |-> "user", content |-> TwoMessage(i)],
       [role |-> "assistant", content |-> << "x" >>] >>

TwoEvents == { Delta(<< "a" >>, << >>, << "x" >>) }

InitTwo ==
    /\ config = load_config(MODELS[1].id, 0, << >>)
    /\ state = create_user_state(supports_thinking(get_model_config(config.default_model_id)))
    /\ chatbot = EarlierTurn(1)
    /\ client_cache = {}
    /\ InitTurn
    /\ parked = [NewSession EXCEPT !.chatbot = EarlierTurn(2)]
    /\ active = 1

NextTwo ==
    \/ Switch
    \/ \E m \in MODEL_CHOICES : OnModelChange(m)
    \/ UpdateContextSize(TwoSize(active))
    \/ UpdateSystemPrompt(TwoPrompt(active))
    \/ \E b \in BOOLEAN : ToggleThinkingEnable(b)
    \/ turns = 0 /\ Submit(TwoMessage(active))
    \/ AddLoading
    \/ StartChat
    \/ \E d \in TwoEvents : chunks < MaxTwoChunks /\ RecvChunk(d)
    \/ ContentPart
    \/ StreamEnd

SpecTwo == InitTwo /\ [][NextTwo]_vars

(***************************************************************************)
(* Definitions used to state the properties.                               *)
(***************************************************************************)
ReasoningLetters == {"a", "b"}

HasReasoningLetter(text) == \E k \in 1..Len(text) : text[k] \in ReasoningLetters

\* the transcript snapshot the running submit was given
Snapshot == SubSeq(history, 1, Len(history) - 2)

RequestBuilt == api_params.messages # << >>

\* the texts of the fragments of one kind that arrived, concatenated in order
RECURSIVE ArrivedText(_, _)
ArrivedText(frags, kind) ==
    IF frags = << >> THEN << >>
    ELSE (IF Head(frags).kind = kind THEN Head(frags).text ELSE << >>)
         \o ArrivedText(Tail(frags), kind)

IsMarker(frag) == frag.kind \in {"begin", "transition"}

NotMarker(frag) == ~IsMarker(frag)

IsError(frag) == frag.kind = "error"

\* the sequence of the texts of tagged fragments
TextSeq(frags) == [i \in 1..Len(frags) |-> frags[i].text]

\* every fragment of the turn was handled with reasoning enabled and supported
ThinkingOnThroughout == \A i \in 1..Len(arrived) : arrived[i].on

\* the turn has ended without a fault
FinishedClean == pc = "done" /\ fault = "none" /\ message # << >>

StoredEntry == chatbot[Len(chatbot)]

(***************************************************************************)
(* C1: no text that arrived as a reasoning fragment in an earlier turn     *)
(* occurs in the message list chat_response builds for a later turn.       *)
(* (System prompts, user messages and answer fragments hold no reasoning   *)
(* letter, so a reasoning letter in the request stems from an earlier      *)
(* turn's reasoning fragment.)                                             *)
(***************************************************************************)
C1_NoReasoningInRequest ==
    \A i \in 1..Len(api_params.messages) :
        ~HasReasoningLetter(api_params.messages[i].content)

(***************************************************************************)
(* C2: in every reachable session state enable_thinking is false whenever  *)
(* the selected model does not support thinking.                           *)
(***************************************************************************)
C2_ThinkingOnlyIfSupported ==
    ~supports_thinking(get_model_config(state.model_id)) => ~state.enable_thinking

(***************************************************************************)
(* C3: update_model and on_model_change set model_id to the selected id,   *)
(* leave context_size and system_prompt alone, clear enable_thinking when  *)
(* the model does not support thinking and keep its value when it does.    *)
(***************************************************************************)
ModelSelected(model_id, before, after) ==
    /\ after.model_id = model_id
    /\ after.context_size = before.context_size
    /\ after.system_prompt = before.system_prompt
    /\ after.enable_thinking =
          IF supports_thinking(get_model_config(model_id))
          THEN before.enable_thinking ELSE FALSE

C3_UpdateModelFrame ==
    /\ [](\A m \in MODEL_CHOICES : ModelSelected(m, state, update_model(m, state)))
    /\ [][\A m \in MODEL_CHOICES : OnModelChange(m) => ModelSelected(m, state, state')]_vars

\* a model without thinking was selected in a session that began with thinking
\* enabled, and a model with thinking was selected while thinking was enabled
C3_Witness ==
    \/ /\ config.default_model_id = "m1"
       /\ state.model_id = "m2"
       /\ ~state.enable_thinking
    \/ /\ config.default_model_id = "m2"
       /\ state.model_id = "m1"
       /\ state.enable_thinking

(***************************************************************************)
(* C4: for a context size n >= 1 the message list is the system entry,     *)
(* then the non-blank entries among the last 2*n entries of the transcript *)
(* in their order (assistant entries decoded), then the current user       *)
(* message; nothing older than the last 2*n entries is included.  With a   *)
(* transcript of 8 non-blank entries and n = 3 the list has 8 entries.     *)
(***************************************************************************)
\* the last k entries of a transcript
LastEntries(t, k) ==
    IF k >= Len(t) THEN t ELSE [i \in 1..k |-> t[Len(t) - k + i]]

NonBlankEntry(e) == \E j \in 1..Len(e.content) : e.content[j] \notin Whitespace

Forwarded(e) ==
    [role |-> e.role,
     content |-> IF e.role = "assistant" THEN extract_answer(e.content) ELSE e.content]

ExpectedMessages(t, n) ==
    LET kept == SelectSeq(LastEntries(t, 2 * n), NonBlankEntry)
    IN  << [role |-> "system", content |-> state.system_prompt] >>
        \o [i \in 1..Len(kept) |-> Forwarded(kept[i])]
        \o << [role |-> "user", content |-> message] >>

C4_ContextWindow ==
    (RequestBuilt /\ state.context_size >= 1) =>
        /\ api_params.messages = ExpectedMessages(Snapshot, state.context_size)
        /\ Len(api_params.messages) <= 2 * state.context_size + 2
        /\ ( /\ Len(Snapshot) = 8
             /\ state.context_size = 3
             /\ \A i \in 3..8 : NonBlankEntry(Snapshot[i]) )
           => Len(api_params.messages) = 8

\* a request built from 8 stored entries with a context size of 3,
\* starting at the third entry of the transcript
C4_Witness ==
    /\ RequestBuilt
    /\ Len(Snapshot) = 8
    /\ state.context_size = 3
    /\ Len(api_params.messages) = 8
    /\ api_params.messages[2].content = Snapshot[3].content
    /\ Snapshot[1].content # Snapshot[3].content

(***************************************************************************)
(* C5: with reasoning enabled and supported, the fragments chat_response   *)
(* emits, markers removed, are the non-empty reasoning and answer          *)
(* fragments in their arrival order (followed by the error fragment when   *)
(* the stream faults); for the stream reasoning a, reasoning b, answer x,  *)
(* answer y the emitted sequence is begin marker, a, b, transition marker, *)
(* x, y.                                                                   *)
(***************************************************************************)
C5_EmissionMirrorsArrival ==
    (RequestBuilt /\ ThinkingOnThroughout) =>
        /\ TextSeq(SelectSeq(emitted, NotMarker))
             = TextSeq(arrived)
               \o (IF fault = "none" THEN << >> ELSE << ErrorText(fault) >>)
        /\ (TextSeq(arrived) = << << "a" >>, << "b" >>, << "x" >>, << "y" >> >>
             /\ arrived[2].kind = "reasoning" /\ arrived[3].kind = "answer"
             /\ pc \in {"streaming", "done"} /\ fault = "none")
           => TextSeq(emitted) = << BEGIN_MARKER, << "a" >>, << "b" >>,
                                   TRANSITION_MARKER, << "x" >>, << "y" >> >>

\* the stream a, b, x, y has ended with reasoning on
C5_Witness ==
    /\ FinishedClean
    /\ ThinkingOnThroughout
    /\ chunks = 4
    /\ TextSeq(arrived) = << << "a" >>, << "b" >>, << "x" >>, << "y" >> >>
    /\ TextSeq(emitted) = << BEGIN_MARKER, << "a" >>, << "b" >>,
                             TRANSITION_MARKER, << "x" >>, << "y" >> >>

(***************************************************************************)
(* C6: whatever the fault and wherever in the turn it is raised, the       *)
(* assistant entry of that turn is the error text alone, with neither the  *)
(* begin marker nor the answer marker in it.                               *)
(***************************************************************************)
C6_ErrorEntryAlone ==
    (pc = "done" /\ fault # "none") =>
        /\ StoredEntry.content = ErrorText(fault)
        /\ ~Contains(StoredEntry.content, BEGIN_MARKER)
        /\ ~Contains(StoredEntry.content, ANSWER_TAG)

(***************************************************************************)
(* C7: a fault never leaves the turn: the turn ends, its fragment sequence *)
(* ends with the one error fragment and nothing follows it, one request    *)
(* at most was issued, the fault leaves the session state as it            *)
(* was, and the session takes the next submit, which starts a fresh turn.  *)
(***************************************************************************)
ErrorPositions == { i \in 1..Len(emitted) : IsError(emitted[i]) }

C7_FaultEndsTurn ==
    /\ fault # "none" =>
          /\ pc = "done"
          /\ ErrorPositions = { Len(emitted) }
          /\ emitted[Len(emitted)].text = ErrorText(fault)
          /\ api_calls <= 1
          /\ ENABLED (\E msg \in UserMessages : Submit(msg))
    /\ fault = "none" => ErrorPositions = {}
    /\ api_calls <= 1

C7_FaultContained ==
    /\ []C7_FaultEndsTurn
    /\ [][(fault = "none" /\ fault' # "none") => state' = state]_vars
    /\ [][(fault # "none" /\ fault' # "none") =>
             (emitted' = emitted /\ api_calls' = api_calls)]_vars
    /\ [][(fault # "none" /\ turns' # turns) =>
             (fault' = "none" /\ emitted' = << >> /\ api_calls' = 0
              /\ pc' \in {"user_added", "done"})]_vars

\* the second turn of a session has streamed its answer and ended without a
\* fault, after a first turn that faulted once a fragment had been emitted
C7_Witness ==
    /\ turns = 2
    /\ FinishedClean
    /\ Len(chatbot) = 4
    /\ chatbot[2].content = << "x" >> \o ErrorText("rate")
    /\ chatbot[4].content = << "x" >>
    /\ api_calls = 1

(***************************************************************************)
(* C8: the entry stored for a turn that streamed reasoning R and then      *)
(* answer A with reasoning enabled decodes, in the context builder, to A   *)
(* with surrounding whitespace trimmed.                                    *)
(***************************************************************************)
ReasoningText == ArrivedText(arrived, "reasoning")

AnswerText == ArrivedText(arrived, "answer")

\* some reasoning fragments, then some answer fragments, all with reasoning on
ReasoningThenAnswer ==
    /\ FinishedClean
    /\ ThinkingOnThroughout
    /\ \E k \in 1..(Len(arrived) - 1) :
          \A i \in 1..Len(arrived) :
              arrived[i].kind = IF i <= k THEN "reasoning" ELSE "answer"

\* the claim as stated: for every A, also one that holds the answer marker
C8_RoundTripAnyAnswer ==
    ReasoningThenAnswer => extract_answer(StoredEntry.content) = Strip(AnswerText)

\* the claim for the answers that do not hold the answer marker
C8_RoundTrip ==
    (ReasoningThenAnswer /\ ~Contains(AnswerText, ANSWER_TAG))
        => extract_answer(StoredEntry.content) = Strip(AnswerText)

\* reasoning that itself spells the marker, then an answer with whitespace around it
C8_Witness ==
    /\ ReasoningThenAnswer
    /\ Contains(ReasoningText, ANSWER_TAG)
    /\ AnswerText = << " ", "x", " " >>
    /\ extract_answer(StoredEntry.content) = << "x" >>

(***************************************************************************)
(* C9: an assistant entry that holds the answer marker is forwarded as the *)
(* text after the last occurrence of the marker, trimmed; an entry with no *)
(* marker, current or legacy, is forwarded whole.                          *)
(***************************************************************************)
TagAt(t, i) == i + 1 <= Len(t) /\ t[i] = ">> ## " /\ t[i + 1] = "REPLY"

TagPositions(t) == { i \in 1..Len(t) : TagAt(t, i) }

LastTag(t) == CHOOSE i \in TagPositions(t) : \A j \in TagPositions(t) : j <= i

AfterLastTag(t) == [k \in 1..(Len(t) - LastTag(t) - 1) |-> t[LastTag(t) + 1 + k]]

NoLegacyTag(t) == \A k \in 1..Len(t) : t[k] \notin {"<details>", "</details>"}

\* the newest stored entry is a non-blank assistant entry inside the window
LastEntryForwarded ==
    /\ RequestBuilt
    /\ state.context_size >= 1
    /\ Snapshot # << >>
    /\ Snapshot[Len(Snapshot)].role = "assistant"
    /\ NonBlankEntry(Snapshot[Len(Snapshot)])

C9_DecodeLastMarker ==
    LastEntryForwarded =>
        LET t   == Snapshot[Len(Snapshot)].content
            fwd == api_params.messages[Len(api_params.messages) - 1]
        IN  /\ fwd.role = "assistant"
            /\ TagPositions(t) # {} => fwd.content = Strip(AfterLastTag(t))
            /\ (TagPositions(t) = {} /\ NoLegacyTag(t)) => fwd.content = t

\* an entry with the marker twice and text after the second one
C9_Witness ==
    /\ LastEntryForwarded
    /\ Snapshot[Len(Snapshot)].content = << ">> ## ", "REPLY", ">> ## ", "REPLY", "x" >>
    /\ api_params.messages[Len(api_params.messages) - 1].content = << "x" >>

(***************************************************************************)
(* C10: when reasoning is disabled, or the model does not support it, or   *)
(* no non-empty reasoning fragment arrives, the assistant entry of a       *)
(* fault-free turn is the concatenation of the answer fragments in their   *)
(* arrival order, and nothing but answer fragments is emitted.             *)
(***************************************************************************)
C10_PlainAnswerEntry ==
    (FinishedClean /\ (~thinking_on \/ ReasoningText = << >>)) =>
        /\ StoredEntry.content = AnswerText
        /\ \A i \in 1..Len(emitted) : emitted[i].kind = "answer"

(***************************************************************************)
(* C11: the assembler only moves forward: when the first non-empty         *)
(* fragment of a turn is an answer fragment no marker (begin or            *)
(* transition) is emitted in that turn, and no begin marker and no         *)
(* reasoning fragment is emitted after an answer fragment.                 *)
(***************************************************************************)
C11_ForwardOnly ==
    /\ (arrived # << >> /\ arrived[1].kind = "answer") =>
          \A i \in 1..Len(emitted) : ~IsMarker(emitted[i])
    /\ \A i, j \in 1..Len(emitted) :
          (i < j /\ emitted[i].kind = "answer") =>
              emitted[j].kind \notin {"begin", "reasoning"}

(***************************************************************************)
(* C12: in every turn the begin marker is emitted at most once and         *)
(* immediately before the first emitted reasoning fragment; the transition *)
(* marker is emitted at most once, only after the begin marker, and        *)
(* immediately before the first answer fragment that follows a reasoning   *)
(* fragment.                                                               *)
(***************************************************************************)
KindPositions(kind) == { i \in 1..Len(emitted) : emitted[i].kind = kind }

\* the answer fragments emitted after some reasoning fragment
AnswersAfterReasoning ==
    { j \in KindPositions("answer") : \E i \in KindPositions("reasoning") : i < j }

C12_MarkersOnceInPlace ==
    /\ Cardinality(KindPositions("begin")) <= 1
    /\ Cardinality(KindPositions("transition")) <= 1
    /\ \A i \in KindPositions("reasoning") :
          (\A k \in KindPositions("reasoning") : i <= k) =>
              (i > 1 /\ emitted[i - 1].kind = "begin")
    /\ \A i \in KindPositions("begin") :
          i = Len(emitted) \/
          (emitted[i + 1].kind = "reasoning"
           /\ \A k \in KindPositions("reasoning") : i < k)
    /\ \A j \in AnswersAfterReasoning :
          (\A k \in AnswersAfterReasoning : j <= k) =>
              emitted[j - 1].kind = "transition"
    /\ \A i \in KindPositions("transition") :
          /\ \E b \in KindPositions("begin") : b < i
          /\ i = Len(emitted) \/
             (i + 1 \in AnswersAfterReasoning
              /\ \A k \in AnswersAfterReasoning : i < k)

(***************************************************************************)
(* C13: when the stream ends without a fault after at least one reasoning  *)
(* fragment was emitted and no answer fragment arrived, something closes   *)
(* the reasoning section: the fragment sequence does not end with a        *)
(* reasoning fragment.                                                     *)
(***************************************************************************)
EndedInReasoning ==
    /\ FinishedClean
    /\ KindPositions("reasoning") # {}
    /\ \A i \in 1..Len(arrived) : arrived[i].kind = "reasoning"

C13_ReasoningClosed ==
    EndedInReasoning => emitted[Len(emitted)].kind # "reasoning"

(***************************************************************************)
(* C14: the message list holds no entry taken from the transcript whose    *)
(* content is empty or whitespace-only, be it blank as stored or blank     *)
(* once decoded.                                                           *)
(***************************************************************************)
C14_NoBlankContext ==
    RequestBuilt =>
        \A i \in 2..(Len(api_params.messages) - 1) :
            NonBlankEntry(api_params.messages[i])

(***************************************************************************)
(* C15: in every reachable session state context_size is an integer >= 1;  *)
(* update_context_size with an integer n stores max(n, 1) and leaves       *)
(* model_id, system_prompt and enable_thinking as they were.               *)
(***************************************************************************)
ContextSizeStored ==
    \A n \in -2..3 :
        update_context_size([nan |-> FALSE, val |-> n], state)
            = [state EXCEPT !.context_size = IF n >= 1 THEN n ELSE 1]

C15_ContextSizeAtLeastOne ==
    /\ state.context_size \in Nat
    /\ state.context_size >= 1
    /\ ContextSizeStored

(***************************************************************************)
(* C16: the transcript is append-only across submits.  Every transcript    *)
(* submit_message yields for a non-empty message is the snapshot it was    *)
(* given, unchanged, then the new user entry, then at most one assistant   *)
(* entry; the transcript of a finished turn is the snapshot plus two       *)
(* entries, user then assistant.                                           *)
(***************************************************************************)
UserEntry == [role |-> "user", content |-> message]

\* the snapshot, read off the handler's local list before and after the
\* placeholder was appended to it
TurnSnapshot ==
    SubSeq(history, 1, Len(history) - (IF pc = "user_added" THEN 1 ELSE 2))

\* a list made of the snapshot, the user entry and at most one assistant entry
GrownFromSnapshot(t) ==
    LET n == Len(TurnSnapshot)
    IN  /\ Len(t) \in {n + 1, n + 2}
        /\ SubSeq(t, 1, n) = TurnSnapshot
        /\ t[n + 1] = UserEntry
        /\ Len(t) = n + 2 => t[n + 2].role = "assistant"

\* a step of submit_message that hands a new transcript to the Chatbot
YieldsTranscript ==
    /\ pc' # pc \/ turns' # turns
    /\ message' # << >>
    /\ chatbot' # chatbot

C16_AppendOnly ==
    /\ [][(turns' # turns /\ message' # << >>) =>
             (history' = Append(chatbot, UserEntry') /\ chatbot' = history')]_vars
    /\ [][(turns' = turns /\ message # << >>) =>
             (SubSeq(history', 1, Len(history)) = history
              /\ Len(history') <= Len(history) + 1
              /\ TurnSnapshot' = TurnSnapshot)]_vars
    /\ [][YieldsTranscript => GrownFromSnapshot(chatbot)']_vars
    /\ []((pc = "done" /\ message # << >> /\ chatbot # << >>) =>
             (GrownFromSnapshot(chatbot) /\ Len(chatbot) = Len(TurnSnapshot) + 2))

\* the second turn has ended: four entries, the first two as the first turn left them
C16_Witness ==
    /\ turns = 2
    /\ FinishedClean
    /\ Len(TurnSnapshot) = 2
    /\ Len(chatbot) = 4
    /\ SubSeq(chatbot, 1, 2) = TurnSnapshot
    /\ chatbot[4].content # chatbot[2].content
    /\ chatbot[4].content # LOADING_TEXT

(***************************************************************************)
(* C17: when a submit has finished, the assistant entry of the transcript  *)
(* it yielded last is the concatenation of the fragments chat_response     *)
(* emitted in that turn; the loading placeholder does not stay stored and  *)
(* is not forwarded in the message list of a later turn.                   *)
(***************************************************************************)
C17_EntryIsEmittedText ==
    /\ (pc = "done" /\ message # << >> /\ chatbot # << >>) =>
          /\ StoredEntry.content = Texts(emitted)
          /\ StoredEntry.content # LOADING_TEXT
    /\ \A i \in 1..Len(api_params.messages) :
          api_params.messages[i].content # LOADING_TEXT

(***************************************************************************)
(* C18: the reasoning decision of a turn is the one taken when the turn    *)
(* started: every fragment of the turn is handled with the value the       *)
(* request was built with, whatever toggle_thinking_enable or update_model *)
(* does meanwhile, and after a begin marker the first answer fragment is   *)
(* preceded by the transition marker.                                      *)
(***************************************************************************)
C18_DecisionFixedAtStart ==
    /\ \A i \in 1..Len(arrived) : arrived[i].on = api_params.thinking
    /\ \A b \in KindPositions("begin"), j \in KindPositions("answer") :
          (b < j /\ \A k \in KindPositions("answer") : ~(b < k /\ k < j)) =>
              emitted[j - 1].kind = "transition"

(***************************************************************************)
(* C20: an assistant entry in the legacy format, a '<details>' section     *)
(* closed by '</details>' and then the answer, with no answer marker, is   *)
(* forwarded as the text after its last '</details>', trimmed.             *)
(***************************************************************************)
ClosePositions(t) == { i \in 1..Len(t) : t[i] = "</details>" }

LastClose(t) == CHOOSE i \in ClosePositions(t) : \A j \in ClosePositions(t) : j <= i

AfterLastClose(t) == [k \in 1..(Len(t) - LastClose(t)) |-> t[LastClose(t) + k]]

\* an opening tag, a closing tag after it, and no answer marker
LegacyEntry(t) ==
    /\ TagPositions(t) = {}
    /\ \E i \in 1..Len(t) : t[i] = "<details>" /\ \E j \in ClosePositions(t) : i < j

C20_DecodeLegacy ==
    LastEntryForwarded =>
        LET t   == Snapshot[Len(Snapshot)].content
            fwd == api_params.messages[Len(api_params.messages) - 1]
        IN  LegacyEntry(t) =>
               /\ fwd.role = "assistant"
               /\ fwd.content = Strip(AfterLastClose(t))
               /\ \A k \in 1..Len(fwd.content) : fwd.content[k] # "</details>"

\* a legacy entry with a section, a blank and the answer
C20_Witness ==
    /\ LastEntryForwarded
    /\ Snapshot[Len(Snapshot)].content = << "<details>", "x", "</details>", " ", "x" >>
    /\ api_params.messages[Len(api_params.messages) - 1].content = << "x" >>

(***************************************************************************)
(* C19: of two sessions, no operation of one changes the state, the        *)
(* transcript or the running turn of the other, under every interleaving   *)
(* of their submits and settings updates; the state, the transcript, the   *)
(* message list and the fragments of a session hold only what that session *)
(* was given; the client cache is shared, and holds the models either      *)
(* session sent a request to.                                              *)
(***************************************************************************)
Sessions == {1, 2}

SessionOf(i) == IF active = i THEN Session ELSE parked

\* the texts stored in a session record
TextsOf(sess) ==
    { sess.state.system_prompt, sess.message, sess.response_text }
    \cup { sess.history[k].content : k \in 1..Len(sess.history) }
    \cup { sess.chatbot[k].content : k \in 1..Len(sess.chatbot) }
    \cup { sess.api_params.messages[k].content : k \in 1..Len(sess.api_params.messages) }
    \cup { sess.emitted[k].text : k \in 1..Len(sess.emitted) }

\* nothing the user of the other session typed is found in session i
OwnDataOnly(i) ==
    LET sess == SessionOf(i)
        j    == 3 - i
    IN  /\ \A t \in TextsOf(sess) : \A k \in 1..Len(t) :
              t[k] \notin { TwoMessage(j)[1], TwoPrompt(j)[1] }
        /\ sess.state.context_size \in { DEFAULT_CONTEXT_SIZE, TwoSize(i).val }
        /\ sess.state.system_prompt \in { DEFAULT_PROMPT, TwoPrompt(i) }
        /\ sess.api_params.messages # << >> =>
              \E prompt \in { DEFAULT_PROMPT, TwoPrompt(i) } :
                  sess.api_params.messages
                      = << [role |-> "system", content |-> prompt] >>
                        \o EarlierTurn(i)
                        \o << [role |-> "user", content |-> TwoMessage(i)] >>

C19_SessionsIsolated ==
    /\ [][\A i \in Sessions :
             (active' # active \/ active # i) => SessionOf(i)' = SessionOf(i)]_vars
    /\ [](\A i \in Sessions : OwnDataOnly(i))
    /\ [](client_cache = { SessionOf(i).api_params.model : i \in Sessions } \ {""})

\* both sessions have finished a turn after setting their own prompt, on
\* different models, and what they emitted differs
C19_Witness ==
    /\ \A i \in Sessions :
          /\ SessionOf(i).pc = "done"
          /\ SessionOf(i).state.system_prompt = TwoPrompt(i)
          /\ SessionOf(i).api_params.messages[1].content = TwoPrompt(i)
          /\ Len(SessionOf(i).chatbot) = 4
    /\ SessionOf(1).api_params.model = "m1"
    /\ SessionOf(2).api_params.model = "m2"
    /\ client_cache = {"m1", "m2"}
    /\ SessionOf(1).emitted # SessionOf(2).emitted

====
